---- MODULE Spec2Model ----
(***************************************************************************)
(* A model of nec2utils.py: the Model class that accumulates NEC2 cards    *)
(* (GW/GA/GH geometry, GM transforms, GE/EX/FR/RP/EN footer) as text.      *)
(*                                                                         *)
(* Text is modelled as TLA+ strings, built with the same concatenations   *)
(* as the Python code.  A Python float is modelled by its decimal         *)
(* representation to six significant digits, which is what the 13.5E      *)
(* field format prints: [neg, mant, exp] stands for                       *)
(* (-1)^neg * mant * 10^(exp-5), mant = 0 or 100000 <= mant <= 999999.     *)
(***************************************************************************)
EXTENDS Integers, Sequences, FiniteSets, TLC

(***************************************************************************)
(* Bounds of the model                                                     *)
(***************************************************************************)
\* the number of append calls explored on one Model
MaxTag == 3
\* the segment count explored beside the example's: odd, so that halving truncates
SmallSegs == 3
\* how far beyond the gauges -3..40 the arguments of AWG go, on either side
AwgPad == 5

(***************************************************************************)
(* Numbers and text                                                        *)
(***************************************************************************)
Digit(d) == SubSeq("0123456789", d + 1, d + 1)

RECURSIVE NatStr(_)
\* the decimal digits of a natural number, as '{:d}' prints them
NatStr(n) == IF n < 10 THEN Digit(n) ELSE NatStr(n \div 10) \o Digit(n % 10)

\* the text of a Python int, as '{:d}' prints it
IntStr(i) == IF i < 0 THEN "-" \o NatStr(-i) ELSE NatStr(i)

RECURSIVE Spaces(_)
Spaces(n) == IF n <= 0 THEN "" ELSE " " \o Spaces(n - 1)

\* fill ' ', align '>', width w: a longer text is not cut
PadLeft(s, w) == Spaces(w - Len(s)) \o s

RECURSIVE Pow10(_)
Pow10(k) == IF k <= 0 THEN 1 ELSE 10 * Pow10(k - 1)

RECURSIVE NumDigits(_)
NumDigits(n) == IF n < 10 THEN 1 ELSE 1 + NumDigits(n \div 10)

\* float(i) for an int i with |i| < 10^6
Float(i) ==
    LET a == IF i < 0 THEN -i ELSE i
    IN  IF a = 0 THEN [neg |-> FALSE, mant |-> 0, exp |-> 0]
        ELSE [neg |-> i < 0, mant |-> a * Pow10(6 - NumDigits(a)),
              exp |-> NumDigits(a) - 1]

\* the float k/10 for an int k with 0 < |k| < 10^6
Tenths(k) ==
    LET a == IF k < 0 THEN -k ELSE k
    IN  [neg |-> k < 0, mant |-> a * Pow10(6 - NumDigits(a)),
         exp |-> NumDigits(a) - 2]

\* unary minus on a float: the sign flips, also on zero
Neg(f) == [f EXCEPT !.neg = ~f.neg]

\* math.trunc of a float with exp <= 5
Trunc(f) ==
    LET a == IF f.exp < 0 THEN 0 ELSE f.mant \div Pow10(5 - f.exp)
    IN  IF f.neg THEN -a ELSE a

\* sci(f): '{: > 13.5E}'.format(f)
sci(f) ==
    LET m == NatStr(f.mant + 1000000)   \* "1dddddd", keeps the leading zeros
        e == IF f.exp < 0 THEN -f.exp ELSE f.exp
        body == (IF f.neg THEN "-" ELSE " ")
                \o SubSeq(m, 2, 2) \o "." \o SubSeq(m, 3, 7)
                \o "E" \o (IF f.exp < 0 THEN "-" ELSE "+")
                \o (IF e < 10 THEN "0" ELSE "") \o NatStr(e)
    IN  PadLeft(body, 13)

\* dec(i): '{: >6d}'.format(math.trunc(i)), for an int i
dec(i) == PadLeft(IntStr(i), 6)

\* dec(f) for a float f
decF(f) == dec(Trunc(f))

\* the quotient of two positive ints to k more decimal digits
RECURSIVE LongDiv(_, _, _)
LongDiv(num, den, k) ==
    IF k = 0 THEN [q |-> num \div den, r |-> num % den]
    ELSE LET p == LongDiv(num, den, k - 1)
         IN  [q |-> 10 * p.q + (10 * p.r) \div den, r |-> (10 * p.r) % den]

\* 2 * math.pi, in millionths
TwoPiMicro == 6283185

\* f / math.pi / 2 for a float f > 0, rounded to six significant digits
DivTwoPi(f) ==
    LET d8 == LongDiv(f.mant, TwoPiMicro, 8).q   \* mant / 2pi * 10^8
        big == d8 >= 10000000                    \* eight digits or seven
        m == IF big THEN (d8 + 50) \div 100 ELSE (d8 + 5) \div 10
    IN  [neg |-> f.neg, mant |-> m, exp |-> IF big THEN f.exp ELSE f.exp - 1]

(***************************************************************************)
(* Points, rotations and the inputs explored                               *)
(***************************************************************************)
Point(x, y, z) == [x |-> Float(x), y |-> Float(y), z |-> Float(z)]

Rotation(rx, ry, rz) == [rx |-> Float(rx), ry |-> Float(ry), rz |-> Float(rz)]

\* segs = 24 in the example antenna
ExampleSegs == 24

\* an optional argument: <<>> is None, <<v>> is the value v
None == <<>>
Some(v) == <<v>>

\* the Point objects: a1 and a2 are the caller's, as in the example antenna,
\* and copy is the one copy.copy makes for self.endpoint
Refs == {"a1", "a2", "copy"}

\* the addWire calls explored: (segments, pt1, pt2), the points by reference
WireArgs == {<<ExampleSegs, "a1", "a2">>}

\* the addArc calls explored: (segments, radius, start, end, rotate, translate)
ArcArgs == {<<SmallSegs, Float(1), Float(0), Float(90),
              Rotation(10, 20, 30), Point(4, 5, 6)>>}

\* the addHelix calls explored: (segments, pt1, properties, rotate, translate),
\* the last without rotate and translate, which default to None
HelixArgs == {<<ExampleSegs, "a2", [length |-> Float(1), height |-> Float(2)],
                Some(Rotation(0, 0, 180)), Some(Point(1, 0, 2))>>,
              <<SmallSegs, "a2", [length |-> Float(1), height |-> Float(2)],
                None, None>>}

\* (start, stepSize, stepCount) given to getText; steps = 2.0 / stepsize
Sweeps == {<<Float(1089), [neg |-> FALSE, mant |-> 500000, exp |-> -2], Float(40)>>}

\* Model(wireRadius): the wire radius is fixed at construction
wireRadius == Float(1)

(***************************************************************************)
(* Low-level functions that generate the cards                             *)
(***************************************************************************)
gw(tag, segments, x1, y1, z1, x2, y2, z2, radius) ==
    "GW" \o dec(tag) \o dec(segments)
    \o sci(x1) \o sci(y1) \o sci(z1)
    \o sci(x2) \o sci(y2) \o sci(z2)
    \o sci(radius) \o "\n"

gh(tag, segments, pitch, height, xzr1, yzr1, xzr2, yzr2, radius) ==
    "GH" \o dec(tag) \o dec(segments)
    \o sci(pitch) \o sci(height)
    \o sci(xzr1) \o sci(yzr1) \o sci(xzr2) \o sci(yzr2)
    \o sci(radius) \o "\n"

ga(tag, segments, arcRadius, startAngle, endAngle, radius) ==
    LET notUsed == Float(0)
    IN  "GA" \o dec(tag) \o dec(segments)
        \o sci(arcRadius) \o sci(startAngle) \o sci(endAngle)
        \o sci(radius)
        \o sci(notUsed)
        \o sci(notUsed) \o sci(notUsed) \o "\n"

\* firstTag is an int: the card carries firstTag * 1.0 in a real field
gm(rotX, rotY, rotZ, trX, trY, trZ, firstTag) ==
    LET tagIncrement == 0
        newStructures == 0
    IN  "GM" \o dec(tagIncrement) \o dec(newStructures)
        \o sci(rotX) \o sci(rotY) \o sci(rotZ)
        \o sci(trX) \o sci(trY) \o sci(trZ)
        \o sci(Float(firstTag)) \o "\n"

ge ==
    LET GPFLAG == 0
    IN  "GE" \o dec(GPFLAG) \o dec(0)
        \o sci(Float(0)) \o sci(Float(0)) \o sci(Float(0)) \o sci(Float(0))
        \o sci(Float(0)) \o sci(Float(0)) \o sci(Float(0)) \o "\n"

\* stepCount is a float in the example: dec truncates it
fr(start, stepSize, stepCount) ==
    LET IFRQ == 0
        I3 == 0
        I4 == 0
    IN  "FR" \o dec(IFRQ) \o decF(stepCount) \o dec(I3) \o dec(I4)
        \o sci(start) \o sci(stepSize) \o "\n"

ex(tag, segment) ==
    LET I1 == 0
        I4 == 0
        F1 == Float(1)
        F2 == Float(0)
    IN  "EX" \o dec(I1) \o dec(tag) \o dec(segment) \o dec(I4)
        \o sci(F1) \o sci(F2)
        \o sci(Float(0)) \o sci(Float(0)) \o sci(Float(0)) \o sci(Float(0)) \o "\n"

rp ==
    LET I1 == 0
        NTH == 37
        NPH == 37
        I4 == 0
    IN  "RP" \o dec(I1) \o dec(NTH) \o dec(NPH) \o dec(I4)
        \o sci(Float(0)) \o sci(Float(0)) \o sci(Float(10)) \o sci(Float(10)) \o "\n"

en == "EN\n"

\* a middle segment counted from zero
MiddleFromZero(segments) == segments \div 2

\* math.trunc(segments/2) + 1, for an int segments >= 0
Middle(segments) == (segments \div 2) + 1

(***************************************************************************)
(* The Model object                                                        *)
(***************************************************************************)
VARIABLES
    wires,            \* self.wires: the GW/GA/GH cards, as text
    transforms,       \* self.transforms: the GM cards emitted, as text
    transformBuffer,  \* self.transformBuffer: the GM cards held back
    tag,              \* self.tag
    EX_tag,           \* self.EX_tag
    EX_segment,       \* self.EX_segment
    middle,           \* self.middle: None until an append sets the attribute
    endpoint,         \* self.endpoint: a reference to a Point object
    heap,             \* the Point objects, by reference
    awg,              \* the argument of the AWG call made, and its outcome
    calls,            \* history: the append calls made, in order
    fed,              \* history: a feed call has returned
    result,           \* history: the last call and what it returned
    prevText,         \* history: the deck of the call before, if it was getText
    given             \* history: the arguments of the last call, if it was getText

vars == <<wires, transforms, transformBuffer, tag, EX_tag, EX_segment, middle,
          endpoint, heap, awg, calls, fed, result, prevText, given>>

\* what a call leaves behind: ret is "self", "None", "text" or "raise"
Outcome(op, ret, text) == [op |-> op, ret |-> ret, text |-> text]

\* the deck the last call returned, when it was getText
LastText == IF result.op = "getText" THEN result.text ELSE ""

\* an append call, as the history keeps it
Call(kind, segments, rotate, translate, done) ==
    [kind |-> kind, segments |-> segments, rotate |-> rotate,
     translate |-> translate, done |-> done]

\* a Python number: an int or a float, with its value
PyInt(i) == [type |-> "int", val |-> Float(i)]
PyFloat(f) == [type |-> "float", val |-> f]

\* the range check of AWG with the last gauge left out
AWGShortRange(n) ==
    IF n.type # "int" THEN [ret |-> "TypeError", ln |-> 0]
    ELSE IF Trunc(n.val) \notin -3..39 THEN [ret |-> "ValueError", ln |-> 0]
    ELSE [ret |-> "value", ln |-> 211040 - 11594 * Trunc(n.val)]

\* AWG(n): the value returned is exp(ln / 100000) * 1e-3, kept by its exponent
AWG(n) ==
    IF n.type # "int" THEN [ret |-> "TypeError", ln |-> 0]
    ELSE IF Trunc(n.val) \notin -3..40 THEN [ret |-> "ValueError", ln |-> 0]
    ELSE [ret |-> "value", ln |-> 211040 - 11594 * Trunc(n.val)]

\* the Model as the constructor leaves it, the caller's points beside it
InitModel ==
    /\ wires = ""
    /\ transforms = ""
    /\ tag = 0
    /\ EX_tag = 0
    /\ EX_segment = 0
    /\ endpoint = "copy"
    /\ heap = [a1 |-> Point(0, 0, 0), a2 |-> Point(0, 0, 1), copy |-> Point(0, 0, 0)]
    /\ transformBuffer = ""
    /\ middle = None
    /\ calls = <<>>
    /\ fed = FALSE
    /\ result = Outcome("init", "self", "")
    /\ prevText = ""
    /\ given = <<>>

\* wire_radius = AWG(14)/2.0 is computed before the Model is made
Init ==
    /\ InitModel
    /\ awg = [arg |-> PyInt(14), out |-> Some(AWG(PyInt(14)))]

\* a tag counter that a feed call disturbs: the tag after the fed one is skipped
NextTagSkipping(t) == IF t = EX_tag /\ t > 0 THEN t + 2 ELSE t + 1

\* self.tag += 1
NextTag(t) == t + 1

\* a flush that empties the buffer without emitting it
flushTransformBufferDropping(tr, buf) == tr

\* self.transforms after flushTransformBuffer(); the buffer is then empty
flushTransformBuffer(tr, buf) == tr \o buf

\* a placement emitted before the cards held back: the flush comes too late
PlacedBeforeFlush(tr, buf, card) == tr \o card \o buf

\* a placement card appended twice
PlacedTwice(tr, buf, card) == flushTransformBuffer(tr, buf) \o card \o card

\* self.transforms after the flush and then the placement card of an arc or helix
Placed(tr, buf, card) == flushTransformBuffer(tr, buf) \o card

\* restoration cards that carry the tag of the element itself
RestorationOwnTag(r, t, nextTag) ==
    gm(Float(0), Float(0), Float(0), Neg(t.x), Neg(t.y), Neg(t.z), nextTag - 1)
    \o gm(Float(0), Float(0), Neg(r.rz), Float(0), Float(0), Float(0), nextTag - 1)
    \o gm(Float(0), Neg(r.ry), Float(0), Float(0), Float(0), Float(0), nextTag - 1)
    \o gm(Neg(r.rx), Float(0), Float(0), Float(0), Float(0), Float(0), nextTag - 1)

\* restoration cards that undo the rotations about X first and about Z last
RestorationFromX(r, t, nextTag) ==
    gm(Float(0), Float(0), Float(0), Neg(t.x), Neg(t.y), Neg(t.z), nextTag)
    \o gm(Neg(r.rx), Float(0), Float(0), Float(0), Float(0), Float(0), nextTag)
    \o gm(Float(0), Neg(r.ry), Float(0), Float(0), Float(0), Float(0), nextTag)
    \o gm(Float(0), Float(0), Neg(r.rz), Float(0), Float(0), Float(0), nextTag)

\* the four cards queued to undo a placement, for the tag after the element's
Restoration(r, t, nextTag) ==
    gm(Float(0), Float(0), Float(0), Neg(t.x), Neg(t.y), Neg(t.z), nextTag)
    \o gm(Float(0), Float(0), Neg(r.rz), Float(0), Float(0), Float(0), nextTag)
    \o gm(Float(0), Neg(r.ry), Float(0), Float(0), Float(0), Float(0), nextTag)
    \o gm(Neg(r.rx), Float(0), Float(0), Float(0), Float(0), Float(0), nextTag)

\* an endpoint that keeps the caller's object instead of a copy of it
EndpointAliased(h, ref) == [heap |-> h, endpoint |-> ref]

\* self.endpoint = copy.copy(pt2): a new object with the fields of pt2
EndpointCopied(h, ref) == [heap |-> [h EXCEPT !.copy = h[ref]], endpoint |-> "copy"]

\* pt1 and pt2 are references: their fields are read when the card is made
addWire(segments, pt1, pt2) ==
    /\ tag < MaxTag
    /\ tag' = NextTag(tag)
    /\ wires' = wires \o gw(tag', segments, heap[pt1].x, heap[pt1].y, heap[pt1].z,
                            heap[pt2].x, heap[pt2].y, heap[pt2].z, wireRadius)
    /\ transforms' = flushTransformBuffer(transforms, transformBuffer)
    /\ transformBuffer' = ""
    /\ middle' = Some(Middle(segments))
    /\ endpoint' = EndpointCopied(heap, pt2).endpoint
    /\ heap' = EndpointCopied(heap, pt2).heap
    /\ calls' = Append(calls, Call("wire", segments, None, None, TRUE))
    /\ result' = Outcome("addWire", "self", "")
    /\ prevText' = LastText
    /\ given' = <<>>
    /\ UNCHANGED <<EX_tag, EX_segment, fed, awg>>

addArc(segments, radius, start, end, rotate, translate) ==
    /\ tag < MaxTag
    /\ tag' = NextTag(tag)
    /\ wires' = wires \o ga(tag', segments, radius, start, end, wireRadius)
    /\ middle' = Some(Middle(segments))
    /\ LET r == rotate
           t == translate
       IN  /\ transforms' = Placed(transforms, transformBuffer,
                                   gm(r.rx, r.ry, r.rz, t.x, t.y, t.z, tag'))
           /\ transformBuffer' = Restoration(r, t, tag' + 1)
    /\ calls' = Append(calls, Call("arc", segments, Some(rotate), Some(translate), TRUE))
    /\ result' = Outcome("addArc", "self", "")
    /\ prevText' = LastText
    /\ given' = <<>>
    /\ UNCHANGED <<EX_tag, EX_segment, endpoint, heap, awg, fed>>

\* rotate and translate default to None, and r.rx or t.x then raises
\* AttributeError once the card is appended and the buffer flushed,
\* before self.middle is set
addHelix(segments, pt1, properties, rotate, translate) ==
    /\ tag < MaxTag
    /\ tag' = NextTag(tag)
    /\ LET hr == DivTwoPi(properties.length)
           height == properties.height
           pitch == properties.height
       IN  wires' = wires \o gh(tag', segments, pitch, height, hr, hr, hr, hr,
                                wireRadius)
    /\ IF rotate = None \/ translate = None
       THEN /\ transforms' = flushTransformBuffer(transforms, transformBuffer)
            /\ transformBuffer' = ""
            /\ middle' = middle
            /\ result' = Outcome("addHelix", "raise", "")
            /\ calls' = Append(calls, Call("helix", segments, rotate, translate, FALSE))
       ELSE LET r == rotate[1]
                t == translate[1]
            IN  /\ transforms' = Placed(transforms, transformBuffer,
                                        gm(r.rx, r.ry, r.rz, t.x, t.y, t.z, tag'))
                /\ transformBuffer' = Restoration(r, t, tag' + 1)
                /\ middle' = Some(Middle(segments))
                /\ result' = Outcome("addHelix", "self", "")
                /\ calls' = Append(calls, Call("helix", segments, rotate, translate, TRUE))
    /\ prevText' = LastText
    /\ given' = <<>>
    /\ UNCHANGED <<EX_tag, EX_segment, endpoint, heap, awg, fed>>

\* self.middle does not exist before the first append: the second
\* assignment raises AttributeError after the first one is done
feedAtMiddle ==
    /\ EX_tag' = tag
    /\ IF middle = None
       THEN /\ EX_segment' = EX_segment
            /\ fed' = fed
            /\ result' = Outcome("feedAtMiddle", "raise", "")
       ELSE /\ EX_segment' = middle[1]
            /\ fed' = TRUE
            /\ result' = Outcome("feedAtMiddle", "None", "")
    /\ prevText' = LastText
    /\ given' = <<>>
    /\ UNCHANGED <<wires, transforms, transformBuffer, tag, middle, endpoint,
                   heap, awg, calls>>

\* a feedAtStart that also moves the cards held back into the stream
feedAtStartFlushing ==
    /\ EX_tag' = tag
    /\ EX_segment' = 1
    /\ fed' = TRUE
    /\ transforms' = flushTransformBuffer(transforms, transformBuffer)
    /\ transformBuffer' = ""
    /\ result' = Outcome("feedAtStart", "None", "")
    /\ prevText' = LastText
    /\ given' = <<>>
    /\ UNCHANGED <<wires, tag, middle, endpoint, heap, awg, calls>>

feedAtStart ==
    /\ EX_tag' = tag
    /\ EX_segment' = 1
    /\ fed' = TRUE
    /\ result' = Outcome("feedAtStart", "None", "")
    /\ prevText' = LastText
    /\ given' = <<>>
    /\ UNCHANGED <<wires, transforms, transformBuffer, tag, middle, endpoint,
                   heap, awg, calls>>

\* a deck with the transform cards ahead of the primitive cards
DeckTransformsFirst(w, t, footer) == t \o w \o footer

\* the text getText returns
Deck(w, t, footer) == w \o t \o footer

\* a getText that keeps the trailing cards in the Model
getTextAppending(start, stepSize, stepCount) ==
    LET footer == ge \o ex(EX_tag, EX_segment) \o fr(start, stepSize, stepCount)
                  \o rp \o en
    IN  /\ transforms' = transforms \o footer
        /\ result' = Outcome("getText", "text", Deck(wires, transforms', ""))
        /\ prevText' = LastText
        /\ given' = <<start, stepSize, stepCount>>
        /\ UNCHANGED <<wires, transformBuffer, tag, EX_tag,
                       EX_segment, middle, endpoint, heap, awg, calls, fed>>

\* a getText that emits the cards held back as well
getTextFlushing(start, stepSize, stepCount) ==
    LET footer == ge \o ex(EX_tag, EX_segment) \o fr(start, stepSize, stepCount)
                  \o rp \o en
    IN  /\ result' = Outcome("getText", "text",
                             Deck(wires, transforms \o transformBuffer, footer))
        /\ prevText' = LastText
        /\ given' = <<start, stepSize, stepCount>>
        /\ UNCHANGED <<wires, transforms, transformBuffer, tag, EX_tag,
                       EX_segment, middle, endpoint, heap, awg, calls, fed>>

\* a getText whose excitation card names the last element, not the one fed
getTextFeedingLast(start, stepSize, stepCount) ==
    LET footer == ge \o ex(tag, EX_segment) \o fr(start, stepSize, stepCount)
                  \o rp \o en
    IN  /\ result' = Outcome("getText", "text", Deck(wires, transforms, footer))
        /\ prevText' = LastText
        /\ given' = <<start, stepSize, stepCount>>
        /\ UNCHANGED <<wires, transforms, transformBuffer, tag, EX_tag,
                       EX_segment, middle, endpoint, heap, awg, calls, fed>>

getText(start, stepSize, stepCount) ==
    LET footer == ge \o ex(EX_tag, EX_segment) \o fr(start, stepSize, stepCount)
                  \o rp \o en
    IN  /\ result' = Outcome("getText", "text", Deck(wires, transforms, footer))
        /\ prevText' = LastText
        /\ given' = <<start, stepSize, stepCount>>
        /\ UNCHANGED <<wires, transforms, transformBuffer, tag, EX_tag,
                       EX_segment, middle, endpoint, heap, awg, calls, fed>>

Next ==
    \/ \E a \in WireArgs : addWire(a[1], a[2], a[3])
    \/ \E a \in ArcArgs : addArc(a[1], a[2], a[3], a[4], a[5], a[6])
    \/ \E a \in HelixArgs : addHelix(a[1], a[2], a[3], a[4], a[5])
    \/ feedAtMiddle
    \/ feedAtStart
    \/ \E s \in Sweeps : getText(s[1], s[2], s[3])

Spec == Init /\ [][Next]_vars

(***************************************************************************)
(* AWG on its own: any argument, then the call                             *)
(***************************************************************************)
\* the arguments explored: ints, floats with an integer value, and halves
AwgInputs ==
    {PyInt(i) : i \in (-3 - AwgPad)..(40 + AwgPad)}
    \cup {PyFloat(Float(i)) : i \in (-3 - AwgPad)..(40 + AwgPad)}
    \cup {PyFloat(Tenths(10 * i + 5)) : i \in (-3 - AwgPad)..(40 + AwgPad)}

InitAWG ==
    /\ InitModel
    /\ awg \in {[arg |-> n, out |-> None] : n \in AwgInputs}

callAWG ==
    /\ awg.out = None
    /\ awg' = [awg EXCEPT !.out = Some(AWG(awg.arg))]
    /\ UNCHANGED <<wires, transforms, transformBuffer, tag, EX_tag, EX_segment,
                   middle, endpoint, heap, calls, fed, result, prevText, given>>

NextAWG == callAWG

SpecAWG == InitAWG /\ [][NextAWG]_vars

(***************************************************************************)
(* The caller changing its points between the addWire calls                *)
(***************************************************************************)
\* the values the caller gives to the z of a point
NewZs == {Float(2), Float(3)}

\* a1.z = ... / a2.z = ... in the caller: the object changes in place
setZ(ref, z) ==
    /\ heap[ref].z # z
    /\ heap' = [heap EXCEPT ![ref].z = z]
    /\ UNCHANGED <<wires, transforms, transformBuffer, tag, EX_tag, EX_segment,
                   middle, endpoint, awg, calls, fed, result, prevText, given>>

NextPoints ==
    \/ \E a \in WireArgs : addWire(a[1], a[2], a[3])
    \/ \E ref \in {"a1", "a2"}, z \in NewZs : setZ(ref, z)

SpecPoints == Init /\ [][NextPoints]_vars

(***************************************************************************)
(* Wide and fractional values in the integer fields                        *)
(***************************************************************************)
\* segment counts up to the first one of seven digits
WideWireArgs ==
    {<<ExampleSegs, "a1", "a2">>, <<Pow10(6) - 1, "a1", "a2">>, <<Pow10(6), "a1", "a2">>}

\* step counts that are not whole numbers: 40.7 and -2.5
FractionSweeps ==
    {<<Float(1089), Tenths(5), Float(40)>>,
     <<Float(1089), Tenths(5), Tenths(407)>>,
     <<Float(1089), Tenths(5), Tenths(-25)>>}

NextFields ==
    \/ \E a \in WideWireArgs : addWire(a[1], a[2], a[3])
    \/ \E s \in FractionSweeps : getText(s[1], s[2], s[3])

SpecFields == Init /\ [][NextFields]_vars

(***************************************************************************)
(* Reading the cards back, to state properties of the text                 *)
(***************************************************************************)
\* the indices of the newlines of s
Newlines(s) == {i \in 1..Len(s) : SubSeq(s, i, i) = "\n"}

\* the lines of s without their newlines; text after the last newline is a line
Lines(s) ==
    LET NL == Newlines(s)
        n == Cardinality(NL)
        end == [k \in 0..n |-> IF k = 0 THEN 0
                               ELSE CHOOSE p \in NL : Cardinality({q \in NL : q < p}) = k - 1]
        whole == [k \in 1..n |-> SubSeq(s, end[k - 1] + 1, end[k] - 1)]
    IN  IF end[n] = Len(s) THEN whole
        ELSE Append(whole, SubSeq(s, end[n] + 1, Len(s)))

Mnemonic(card) == SubSeq(card, 1, 2)

\* the k-th integer field of a card: six columns each, after the mnemonic
IntField(card, k) == SubSeq(card, 6 * k - 3, 6 * k + 2)

\* the k-th real field of a card with n integer fields: thirteen columns each
RealField(card, n, k) == SubSeq(card, 6 * n + 13 * k - 10, 6 * n + 13 * k + 2)

\* the integers a field of the cards explored can carry
DecRange == -1 .. (ExampleSegs + MaxTag + SmallSegs + 20)
DecTable == [i \in DecRange |-> dec(i)]
IsDec(s) == \E i \in DecRange : DecTable[i] = s
DecValue(s) == CHOOSE i \in DecRange : DecTable[i] = s

\* the tags a GM card of the cards explored can carry, as a real field
SciRange == 0 .. (MaxTag + 2)
SciTable == [i \in SciRange |-> sci(Float(i))]
IsSciTag(s) == \E i \in SciRange : SciTable[i] = s
SciTag(s) == CHOOSE i \in SciRange : SciTable[i] = s

\* the tag of a GW, GA or GH card
PrimitiveTag(card) == DecValue(IntField(card, 1))

\* the segment count of a GW, GA or GH card
PrimitiveSegments(card) == DecValue(IntField(card, 2))

\* the first tag a GM card applies to
GmTag(card) == SciTag(RealField(card, 2, 7))

IsPrimitive(card) == Mnemonic(card) \in {"GW", "GA", "GH"}

KindMnemonic(kind) ==
    IF kind = "wire" THEN "GW" ELSE IF kind = "arc" THEN "GA" ELSE "GH"

\* a card without its newline
Strip(card) == SubSeq(card, 1, Len(card) - 1)

(***************************************************************************)
(* C1: the tags written into the primitive records by k append calls, of   *)
(* any mix of kinds and with feed calls in between, are 1, 2, ..., k in    *)
(* call order.                                                             *)
(***************************************************************************)
TagsAreSequential ==
    LET W == Lines(wires)
    IN  /\ Len(W) = Len(calls)
        /\ \A i \in 1..Len(W) :
              /\ Mnemonic(W[i]) = KindMnemonic(calls[i].kind)
              /\ IsDec(IntField(W[i], 1))
              /\ PrimitiveTag(W[i]) = i

\* three appends of three kinds, a feed call made between them
TagsAreSequentialWitness ==
    /\ Len(calls) = 3
    /\ {calls[i].kind : i \in 1..3} = {"wire", "arc", "helix"}
    /\ fed /\ EX_tag \in 1..2
    /\ PrimitiveTag(Lines(wires)[3]) = 3
\* an append call that returned and placed its element with a GM card
IsPlaced(c) == c.kind \in {"arc", "helix"} /\ c.done

\* the placement card of the call c, whose element has tag T, without its newline
PlacementCard(c, T) ==
    LET r == c.rotate[1]
        t == c.translate[1]
    IN  Strip(gm(r.rx, r.ry, r.rz, t.x, t.y, t.z, T))

\* the deck the last call returned, as lines
DeckLines == Lines(result.text)

(***************************************************************************)
(* C2: when an addArc or addHelix call that got tag T is followed by       *)
(* another append, the transform stream holds, one after the other, the    *)
(* placement card tagged T and four cards tagged T+1, and a transform card *)
(* of the second element comes only after these.                           *)
(***************************************************************************)
PlacementThenRestoration ==
    LET G == Lines(transforms)
    IN  \A T \in 1..(Len(calls) - 1) :
           IsPlaced(calls[T]) =>
              \E i \in 1..Len(G) :
                 /\ G[i] = PlacementCard(calls[T], T)
                 /\ \A j \in 1..(i - 1) : GmTag(G[j]) <= T
                 /\ i + 4 <= Len(G)
                 /\ \A j \in (i + 1)..(i + 4) :
                       Mnemonic(G[j]) = "GM" /\ GmTag(G[j]) = T + 1
                 /\ IF IsPlaced(calls[T + 1])
                    THEN /\ i + 5 <= Len(G)
                         /\ G[i + 5] = PlacementCard(calls[T + 1], T + 1)
                    ELSE \A j \in (i + 5)..Len(G) : GmTag(G[j]) > T + 1

\* an arc, then a helix: the stream is placement, four restorations, placement
PlacementThenRestorationWitness ==
    /\ Len(calls) = 2
    /\ calls[1].kind = "arc"
    /\ IsPlaced(calls[2])
    /\ Len(Lines(transforms)) = 6

(***************************************************************************)
(* C3: a deck returned by getText holds no transform card whose tag is     *)
(* greater than the highest tag of a primitive card; the restoration cards *)
(* of an arc or helix appended last are not in it.                         *)
(***************************************************************************)
NoRestorationPastLastTag ==
    result.op = "getText" =>
       LET D == DeckLines
           primitives == {PrimitiveTag(D[i]) : i \in {k \in 1..Len(D) : IsPrimitive(D[k])}}
       IN  \A i \in 1..Len(D) :
              Mnemonic(D[i]) = "GM" =>
                 /\ IsSciTag(RealField(D[i], 2, 7))
                 /\ \E t \in primitives : GmTag(D[i]) <= t

\* getText right after an arc or helix, whose restoration cards are held back
NoRestorationPastLastTagWitness ==
    /\ result.op = "getText"
    /\ Len(calls) >= 2
    /\ IsPlaced(calls[Len(calls)])
    /\ Len(Lines(transformBuffer)) = 4
    /\ \E i \in 1..Len(DeckLines) : Mnemonic(DeckLines[i]) = "GM"

\* the indices, in the lines D, of the cards that restore the frame for tag T+1
RestorationIndices(D, T) ==
    LET placed == IsPlaced(calls[T + 1])
        own == IF placed THEN PlacementCard(calls[T + 1], T + 1) ELSE ""
    IN  {j \in 1..Len(D) :
            /\ Mnemonic(D[j]) = "GM"
            /\ GmTag(D[j]) = T + 1
            /\ placed => D[j] # own}

\* the index, in the lines D, of the primitive card with tag T, or 0
PrimitiveIndex(D, T) ==
    IF \E i \in 1..Len(D) : IsPrimitive(D[i]) /\ PrimitiveTag(D[i]) = T
    THEN CHOOSE i \in 1..Len(D) : IsPrimitive(D[i]) /\ PrimitiveTag(D[i]) = T
    ELSE 0

(***************************************************************************)
(* C4, as claimed: in the deck, the restoration cards tagged T+1 of an arc *)
(* or helix that another append followed come before the primitive card    *)
(* of the element with tag T+1.                                            *)
(***************************************************************************)
RestorationBeforePrimitive ==
    result.op = "getText" =>
       LET D == DeckLines
       IN  \A T \in 1..(Len(calls) - 1) :
              IsPlaced(calls[T]) =>
                 \A j \in RestorationIndices(D, T) : j < PrimitiveIndex(D, T + 1)

(***************************************************************************)
(* C4, amended: the append that follows an arc or helix with tag T flushes *)
(* the four restoration cards tagged T+1 ahead of its own transform card:  *)
(* in the deck they come after the primitive card of the element with tag  *)
(* T+1, as every transform card comes after every primitive card, and      *)
(* before that element's placement card when it has one.                   *)
(***************************************************************************)
RestorationAfterPrimitive ==
    result.op = "getText" =>
       LET D == DeckLines
           primitives == {i \in 1..Len(D) : IsPrimitive(D[i])}
       IN  \A T \in 1..(Len(calls) - 1) :
              IsPlaced(calls[T]) =>
                 LET R == RestorationIndices(D, T)
                     placed == IsPlaced(calls[T + 1])
                     own == IF placed THEN PlacementCard(calls[T + 1], T + 1) ELSE ""
                 IN  /\ Cardinality(R) = 4
                     /\ PrimitiveIndex(D, T + 1) > 0
                     /\ \A j \in R : \A i \in primitives : i < j
                     /\ placed => \E i \in 1..Len(D) :
                                     D[i] = own /\ \A j \in R : j < i

\* getText after an arc and a helix: the deck holds the restoration of the arc
RestorationAfterPrimitiveWitness ==
    /\ result.op = "getText"
    /\ Len(calls) >= 2
    /\ IsPlaced(calls[1])
    /\ IsPlaced(calls[2])
    /\ Cardinality(RestorationIndices(DeckLines, 1)) = 4
\* the last primitive card written
LastPrimitive == LET W == Lines(wires) IN W[Len(W)]

(***************************************************************************)
(* C5: after appends that end with an element of n segments and tag T,     *)
(* feedAtStart records the excitation pair (T, 1) and feedAtMiddle records *)
(* (T, floor(n/2) + 1): segment 13 for the 24 segments of the example.     *)
(* T and n are read from the last primitive card.  feedAtMiddle is checked *)
(* after an append that returned.                                          *)
(***************************************************************************)
FeedRecordsLastElement ==
    /\ (result.op = "feedAtStart" /\ calls # <<>>) =>
          /\ result.ret = "None"
          /\ EX_tag = PrimitiveTag(LastPrimitive)
          /\ EX_tag = Len(calls)
          /\ EX_segment = 1
    /\ (result.op = "feedAtMiddle" /\ calls # <<>> /\ calls[Len(calls)].done) =>
          LET n == PrimitiveSegments(LastPrimitive)
          IN  /\ result.ret = "None"
              /\ EX_tag = PrimitiveTag(LastPrimitive)
              /\ EX_tag = Len(calls)
              /\ EX_segment = (n \div 2) + 1
              /\ n = 24 => EX_segment = 13
              /\ n = calls[Len(calls)].segments

\* feedAtMiddle after a wire and a helix of 24 segments: the pair is (2, 13)
FeedRecordsLastElementWitness ==
    /\ result.op = "feedAtMiddle"
    /\ Len(calls) = 2
    /\ IsPlaced(calls[2])
    /\ PrimitiveSegments(LastPrimitive) = 24
    /\ EX_tag = 2
    /\ EX_segment = 13

(***************************************************************************)
(* C6, as claimed: feedAtStart and feedAtMiddle on a Model without any     *)
(* element fail, and the excitation pair stays as the constructor set it.  *)
(***************************************************************************)
FeedBeforeAppendFails ==
    (result.op \in {"feedAtStart", "feedAtMiddle"} /\ calls = <<>>) =>
       /\ result.ret = "raise"
       /\ EX_tag = 0
       /\ EX_segment = 0

\* the tag and segment fields of the EX card of the lines D
ExcitationOf(D) ==
    LET c == D[CHOOSE i \in 1..Len(D) : Mnemonic(D[i]) = "EX"]
    IN  <<DecValue(IntField(c, 2)), DecValue(IntField(c, 3))>>

(***************************************************************************)
(* C7, as claimed: getText on a Model on which no feed call was made       *)
(* fails; no deck it returns has an excitation card with tag 0.            *)
(***************************************************************************)
GetTextFailsWithoutFeed ==
    result.op = "getText" =>
       /\ ~fed => result.ret = "raise"
       /\ result.ret = "text" => ExcitationOf(DeckLines)[1] # 0

(***************************************************************************)
(* C8, as claimed: once a feed point is set, 1 <= EX_tag <= tag, and       *)
(* EX_segment is 1 or floor(n/2) + 1 for the segment count n of the        *)
(* element with tag EX_tag, a segment that element has.                    *)
(***************************************************************************)
FeedRefersToElement ==
    fed =>
       /\ 1 <= EX_tag
       /\ EX_tag <= tag
       /\ LET n == PrimitiveSegments(Lines(wires)[EX_tag])
          IN  /\ EX_segment \in {1, (n \div 2) + 1}
              /\ EX_segment <= n

\* the number of cards of the lines D with the mnemonic m
CountOf(D, m) == Cardinality({i \in 1..Len(D) : Mnemonic(D[i]) = m})

Trailer == <<"GE", "EX", "FR", "RP", "EN">>

(***************************************************************************)
(* C9: a deck returned by getText is the primitive cards in append order,  *)
(* then the transform cards in the order of the permanent stream, then one *)
(* GE, one EX, one FR, one RP and one EN card, in this order.              *)
(***************************************************************************)
DeckOrder ==
    result.op = "getText" =>
       LET D == DeckLines
           W == Lines(wires)
           G == Lines(transforms)
           k == Len(calls)
       IN  /\ Len(D) = k + Len(G) + 5
           /\ Len(W) = k
           /\ \A i \in 1..k :
                 /\ D[i] = W[i]
                 /\ Mnemonic(D[i]) = KindMnemonic(calls[i].kind)
                 /\ PrimitiveTag(D[i]) = i
           /\ \A j \in 1..Len(G) :
                 /\ D[k + j] = G[j]
                 /\ Mnemonic(D[k + j]) = "GM"
                 /\ j > 1 => GmTag(G[j - 1]) <= GmTag(G[j])
           /\ \A j \in 1..5 : Mnemonic(D[k + Len(G) + j]) = Trailer[j]
           /\ \A j \in 1..5 : CountOf(D, Trailer[j]) = 1

\* a deck of three kinds of primitive and ten transform cards
DeckOrderWitness ==
    /\ result.op = "getText"
    /\ Len(calls) = 3
    /\ {calls[i].kind : i \in 1..3} = {"wire", "arc", "helix"}
    /\ Len(DeckLines) = 3 + 10 + 5

(***************************************************************************)
(* C10, as claimed: a second getText on the same Model returns a deck that *)
(* differs from the first and holds the trailing cards more than once.     *)
(***************************************************************************)
SecondDeckDuplicatesTrailer ==
    (result.op = "getText" /\ prevText # "") =>
       /\ result.text # prevText
       /\ \A j \in 1..5 : CountOf(DeckLines, Trailer[j]) > 1

(***************************************************************************)
(* C10, amended: getText appends nothing to the Model: a second getText    *)
(* with the same arguments returns a deck equal to the first, with each    *)
(* trailing card once.                                                     *)
(***************************************************************************)
SecondDeckEqualsFirst ==
    (result.op = "getText" /\ prevText # "") =>
       /\ result.text = prevText
       /\ \A j \in 1..5 : CountOf(DeckLines, Trailer[j]) = 1

\* getText twice in a row on a Model with an element and a feed point
SecondDeckEqualsFirstWitness ==
    /\ result.op = "getText"
    /\ prevText # ""
    /\ prevText = result.text
    /\ calls # <<>>
    /\ fed
(***************************************************************************)
(* C11: each of addWire, addArc, addHelix, feedAtStart and feedAtMiddle,   *)
(* when it returns, returns the Model it was called on, so that a chain    *)
(* of calls goes on with the same Model.                                   *)
(***************************************************************************)
CallsReturnTheModel ==
    (/\ result.op \in {"addWire", "addArc", "addHelix", "feedAtStart", "feedAtMiddle"}
     /\ result.ret # "raise")
    => result.ret = "self"

(***************************************************************************)
(* C12: AWG(n) fails for every n that is not an int and for every int      *)
(* outside -3..40, and returns a value for every int in -3..40; it never   *)
(* returns a value (clamped or otherwise) for the former.                  *)
(***************************************************************************)
AWGOnlyForGauges ==
    awg.out # None =>
        LET n == awg.arg
            r == awg.out[1]
        IN  IF n.type = "int" /\ Trunc(n.val) >= -3 /\ Trunc(n.val) <= 40
            THEN r.ret = "value"
            ELSE r.ret \in {"TypeError", "ValueError"}

\* the first int past the largest gauge was given, and refused
AWGOnlyForGaugesWitness ==
    /\ awg.arg = PyInt(41)
    /\ awg.out # None
    /\ awg.out[1].ret = "ValueError"


(***************************************************************************)
(* C13: points are copied, never aliased: when the caller changes its p1   *)
(* or p2 after addWire(segments, p1, p2), the wire records emitted so far  *)
(* stay as they are and so does the value of the Model's endpoint.         *)
(***************************************************************************)
PointsAreCopied ==
    [][(heap'.a1 # heap.a1 \/ heap'.a2 # heap.a2)
       => (wires' = wires /\ heap'[endpoint'] = heap[endpoint])]_vars

\* a wire was appended, and the caller's p2 has changed since
PointsAreCopiedWitness ==
    /\ tag >= 1
    /\ result.op = "addWire"
    /\ heap[endpoint] # heap.a2


\* the text s is the int v, right-justified with spaces in six characters
SixWide(s, v) == Len(s) = 6 /\ \E pad \in 0..5 : s = Spaces(pad) \o IntStr(v)

\* |f| in units of 10^-5, for a float below 10^4
Magnitude(f) ==
    IF f.exp >= 0 THEN f.mant * Pow10(f.exp) ELSE f.mant \div Pow10(-f.exp)

\* the int between zero and f that is nearest to f
TowardZero(f) ==
    LET a == CHOOSE v \in 0..10000 :
                 v * Pow10(5) <= Magnitude(f) /\ Magnitude(f) < (v + 1) * Pow10(5)
    IN  IF f.neg THEN -a ELSE a

(***************************************************************************)
(* C14: every integer field of every record occupies exactly six           *)
(* characters, right-justified and padded with spaces, whatever integer    *)
(* the calls put there (tag, segment count, excitation pair, step count);  *)
(* a value that is not a whole number is cut toward zero.                  *)
(***************************************************************************)
IntegerFieldsAreSixWide ==
    /\ LET W == Lines(wires)
       IN  \A i \in 1..Len(W) :
               /\ SixWide(IntField(W[i], 1), i)
               /\ SixWide(IntField(W[i], 2), calls[i].segments)
               /\ Len(W[i]) = 2 + 2 * 6 + 7 * 13
    /\ (result.op = "getText" /\ result.ret = "text") =>
           LET D == Lines(result.text)
           IN  \A j \in 1..Len(D) :
                   /\ Mnemonic(D[j]) = "FR" =>
                          SixWide(IntField(D[j], 2), TowardZero(given[3]))
                   /\ Mnemonic(D[j]) = "EX" =>
                          /\ SixWide(IntField(D[j], 2), EX_tag)
                          /\ SixWide(IntField(D[j], 3), EX_segment)


\* the last append call made
LastCall == calls[Len(calls)]

(***************************************************************************)
(* C15: each addArc and each addHelix call that returns has appended to    *)
(* the transform stream, in that call, exactly one placement card, which   *)
(* carries the rotation and translation given and the tag of the element;  *)
(* an addWire call adds no card of its own to the stream, it only moves    *)
(* the cards held back.                                                    *)
(***************************************************************************)
EachCurveIsPlaced ==
    [][(tag' # tag /\ result'.ret = "self") =>
          LET c == calls'[Len(calls')]
              moved == Lines(transforms \o transformBuffer)
              after == Lines(transforms')
          IN  IF c.kind = "wire"
              THEN after = moved
              ELSE /\ Len(after) = Len(moved) + 1
                   /\ SubSeq(after, 1, Len(moved)) = moved
                   /\ Mnemonic(after[Len(after)]) = "GM"
                   /\ GmTag(after[Len(after)]) = tag'
                   /\ after[Len(after)] = PlacementCard(c, tag')]_vars

\* a helix was appended behind an arc: the stream ends with its placement card
EachCurveIsPlacedWitness ==
    /\ result.op = "addHelix"
    /\ result.ret = "self"
    /\ Len(calls) >= 2
    /\ calls[Len(calls) - 1].kind = "arc"
    /\ LET G == Lines(transforms)
       IN  G[Len(G)] = PlacementCard(LastCall, tag)

\* the whole numbers a rotation or translation field of the cards explored holds
RealRange == -180..180
RealTable == [v \in RealRange |-> sci(Float(v))]

\* the number a real field holds; minus zero is zero
RealValue(s) ==
    IF s = sci(Neg(Float(0))) THEN 0 ELSE CHOOSE v \in RealRange : RealTable[v] = s

\* the rotations and translations of a GM card, as numbers
GmMoves(card) == [k \in 1..6 |-> RealValue(RealField(card, 2, k))]

(***************************************************************************)
(* C16: after an addArc or addHelix call with rotation (rx, ry, rz) and    *)
(* translation (tx, ty, tz) whose element got tag T, the cards held back   *)
(* are exactly four, all for tag T+1: the translation (-tx, -ty, -tz)      *)
(* without rotation, then the rotation -rz about Z alone, then -ry about   *)
(* Y alone, then -rx about X alone.                                        *)
(***************************************************************************)
RestorationUndoesPlacement ==
    (calls # <<>> /\ IsPlaced(LastCall)) =>
        LET B == Lines(transformBuffer)
            r == LastCall.rotate[1]
            t == LastCall.translate[1]
        IN  /\ Len(B) = 4
            /\ \A k \in 1..4 : Mnemonic(B[k]) = "GM" /\ GmTag(B[k]) = tag + 1
            /\ GmMoves(B[1]) = <<0, 0, 0, -Trunc(t.x), -Trunc(t.y), -Trunc(t.z)>>
            /\ GmMoves(B[2]) = <<0, 0, -Trunc(r.rz), 0, 0, 0>>
            /\ GmMoves(B[3]) = <<0, -Trunc(r.ry), 0, 0, 0, 0>>
            /\ GmMoves(B[4]) = <<-Trunc(r.rx), 0, 0, 0, 0, 0>>

\* the arc rotated by (10, 20, 30) and moved by (4, 5, 6) was just appended
RestorationUndoesPlacementWitness ==
    /\ result.op = "addArc"
    /\ result.ret = "self"
    /\ transformBuffer # ""

(***************************************************************************)
(* C17: only an append moves the cards held back into the transform        *)
(* stream: feedAtStart, feedAtMiddle and getText leave the primitive       *)
(* cards, the transform stream, the cards held back and the tag as they    *)
(* were.                                                                   *)
(***************************************************************************)
OnlyAppendsFlush ==
    [][/\ (transforms' # transforms \/ transformBuffer' # transformBuffer)
           => result'.op \in {"addWire", "addArc", "addHelix"}
       /\ result'.op \in {"feedAtStart", "feedAtMiddle", "getText"}
           => UNCHANGED <<wires, transforms, transformBuffer, tag>>]_vars

\* a feed call was made while cards were held back, and they still are
OnlyAppendsFlushWitness ==
    /\ result.op = "feedAtStart"
    /\ transformBuffer # ""

(***************************************************************************)
(* C18: whenever the appends made have returned, the cards held back are   *)
(* none or exactly four, all for the tag after the current one; they are   *)
(* none exactly when no element was appended or the last element appended  *)
(* is a wire, so they are never those of more than one element.            *)
(***************************************************************************)
BufferHoldsLastCurve ==
    (calls = <<>> \/ LastCall.done) =>
        LET B == Lines(transformBuffer)
        IN  /\ Len(B) \in {0, 4}
            /\ \A k \in 1..Len(B) : Mnemonic(B[k]) = "GM" /\ GmTag(B[k]) = tag + 1
            /\ Len(B) = 0 <=> (calls = <<>> \/ LastCall.kind = "wire")

\* two curves one after the other: the cards held back are the four of the second
BufferHoldsLastCurveWitness ==
    /\ Len(calls) >= 2
    /\ IsPlaced(calls[Len(calls) - 1])
    /\ IsPlaced(LastCall)
    /\ Len(Lines(transformBuffer)) = 4

(***************************************************************************)
(* C19: the pair a feed call recorded stays as it is through every later   *)
(* addWire, addArc and addHelix, until another feed call replaces it, and  *)
(* the excitation card of a deck carries that pair.                        *)
(***************************************************************************)
FeedPairIsKept ==
    /\ [][result'.op \in {"addWire", "addArc", "addHelix", "getText"}
             => UNCHANGED <<EX_tag, EX_segment>>]_vars
    /\ []((result.op = "getText" /\ result.ret = "text")
             => ExcitationOf(DeckLines) = <<EX_tag, EX_segment>>)

\* a deck made after an element was appended behind the one fed
FeedPairIsKeptWitness ==
    /\ result.op = "getText"
    /\ fed
    /\ EX_tag >= 1
    /\ EX_tag < tag


====
